---- MODULE Spec2Model ----
(***************************************************************************)
(* A model of the LXC task driver (lxc/driver.go and the container setup   *)
(* helpers): the task store, the StartTask / RecoverTask / StopTask /      *)
(* DestroyTask / InspectTask / WaitTask / TaskStats handlers, the          *)
(* background poller of every task handle and the fingerprint and wait     *)
(* loops, running against an LXC runtime whose calls may fail.             *)
(*                                                                         *)
(* The specifications:                                                     *)
(*   Spec       overlapping StartTask and RecoverTask handlers on the      *)
(*              default task, stop, destroy, inspect, driver restarts;     *)
(*   SpecStart  one StartTask at a time, over every task specification;    *)
(*   SpecPoll   SpecStart with pollers that are scheduled fairly;          *)
(*   SpecLoops  the fingerprint, wait and stats goroutines;                *)
(*   SpecWait   the wait goroutines alone, scheduled fairly;               *)
(*   SpecPlan   the container setup helpers, each applied on its own to    *)
(*              every drawn task and driver configuration.                 *)
(***************************************************************************)
EXTENDS Integers, Sequences, FiniteSets, Bags, TLC

(***************************************************************************)
(* Bounds of the model.                                                    *)
(***************************************************************************)
\* number of RPC handlers (StartTask, RecoverTask) that may be in flight at once
MaxCalls == 2
\* number of task handles alive at once (registered, or held by a loop)
MaxHandles == 2
\* number of init processes the runtime starts (pids are never reused)
MaxPid == 2
\* number of background channel loops (fingerprint, wait, stats) alive at once
MaxLoops == 1
\* number of task starts that read the clock
MaxTime == 2
\* number of volumes of a task whose setup is planned
MaxVolumes == 2

\* taskHandleVersion, the version StartTask stamps on the handles it returns
taskHandleVersion == 1

TaskIDs == {"t1"}
ContainerNames == {"n1", "n2"}

(***************************************************************************)
(* Paths, as filepath sees them: an absolute flag and the components.      *)
(***************************************************************************)
Path(abs, parts) == [abs |-> abs, parts |-> parts]

\* cfg.TaskDir().Dir
TaskDir == Path(TRUE, <<"alloc", "task">>)

\* the path components that begin with the two characters ".."
DotDotPrefixed == {"..", "..data"}

RECURSIVE CleanParts(_, _, _)
\* filepath.Clean on the components: ".." removes the component before it;
\* at the root of an absolute path it is dropped, at the head of a relative
\* path it is kept
CleanParts(abs, todo, done) ==
    IF todo = <<>> THEN done
    ELSE IF Head(todo) = ".."
         THEN IF done # <<>> /\ done[Len(done)] # ".."
              THEN CleanParts(abs, Tail(todo), SubSeq(done, 1, Len(done) - 1))
              ELSE IF abs THEN CleanParts(abs, Tail(todo), done)
                   ELSE CleanParts(abs, Tail(todo), Append(done, ".."))
         ELSE CleanParts(abs, Tail(todo), Append(done, Head(todo)))

\* filepath.IsAbs
IsAbs(p) == p.abs

\* filepath.Join(dir, p): the concatenation, cleaned
Join(dir, p) == Path(dir.abs, CleanParts(dir.abs, dir.parts \o p.parts, <<>>))

RECURSIVE CommonPrefixLen(_, _)
CommonPrefixLen(a, b) ==
    IF a = <<>> \/ b = <<>> \/ Head(a) # Head(b) THEN 0
    ELSE 1 + CommonPrefixLen(Tail(a), Tail(b))

\* filepath.Rel(base, target) for two cleaned absolute paths: one ".." per
\* component of base below the common prefix, then the rest of target
Rel(base, target) ==
    LET k == CommonPrefixLen(base.parts, target.parts)
    IN  [i \in 1..(Len(base.parts) - k) |-> ".."]
          \o SubSeq(target.parts, k + 1, Len(target.parts))

\* pathEscapesSandbox: strings.HasPrefix(rel, "..")
pathEscapesSandbox(sandboxDir, path) ==
    LET rel == Rel(sandboxDir, path)
    IN  rel # <<>> /\ rel[1] \in DotDotPrefixed

(***************************************************************************)
(* Driver and task configuration.                                          *)
(***************************************************************************)
\* a verbosity map with one more key
verbosityLevels_Open == {"", "verbose", "quiet", "loud"}

\* the keys of verbosityLevels and of logLevels
verbosityLevels == {"", "verbose", "quiet"}
logLevels == {"", "debug", "error", "info", "trace", "warn"}

\* a volume "source:target:mode:type" after strings.Split
Volume(src, target) == [src |-> src, target |-> target, mode |-> "rw", type |-> "dir"]
AbsVolume == Volume(Path(TRUE, <<"etc">>), Path(TRUE, <<"etc">>))
RelVolume == Volume(Path(FALSE, <<"data">>), Path(TRUE, <<"app", "data">>))
EscVolume == Volume(Path(FALSE, <<"..", "other">>), Path(FALSE, <<"other">>))
\* "..data:/data:rw:dir" and "sub/../data:/data:rw:dir": both inside the task directory
DotVolume == Volume(Path(FALSE, <<"..data">>), Path(TRUE, <<"data">>))
UpVolume == Volume(Path(FALSE, <<"sub", "..", "data">>), Path(TRUE, <<"data">>))

\* drivers.MountConfig, with what os.Stat says of the host path
Mount(host, ro, isDir) ==
    [HostPath |-> host, TaskPath |-> Path(TRUE, <<"mnt">>), Readonly |-> ro, IsDir |-> isDir]
\* drivers.DeviceConfig, with whether ldevices.DeviceFromPath resolves the host path
Device(host, perms, resolves) ==
    [HostPath |-> host, TaskPath |-> Path(TRUE, <<"dev", "x">>),
     Permissions |-> perms, Resolves |-> resolves]

\* what a task asks of the driver: the fields of TaskConfig (the driver block)
\* and of drivers.TaskConfig (mounts, devices, resources) the handlers read
TaskSpec(verbosity, logLevel, mode, volumes, mounts, devices) ==
    [Verbosity |-> verbosity, LogLevel |-> logLevel, NetworkMode |-> mode,
     Volumes |-> volumes, Mounts |-> mounts, Devices |-> devices,
     MemoryMB |-> 256, CPUShares |-> 100]

DefaultSpec == TaskSpec("", "", "", <<>>, <<>>, <<>>)

\* the task specifications the model starts tasks with: the default one and
\* one per validation the start performs
TaskSpecs ==
    { DefaultSpec,
      TaskSpec("loud", "", "", <<>>, <<>>, <<>>),
      TaskSpec("verbose", "fatal", "host", <<>>, <<>>, <<>>),
      TaskSpec("", "info", "none", <<>>, <<>>, <<>>),
      TaskSpec("", "", "host", <<AbsVolume>>, <<>>, <<>>),
      TaskSpec("quiet", "", "", <<RelVolume, EscVolume>>, <<>>, <<>>),
      TaskSpec("", "", "", <<>>, <<Mount("h1", TRUE, TRUE)>>,
               <<Device("d2", "r", FALSE)>>),
      TaskSpec("", "", "", <<RelVolume>>, <<>>,
               <<Device("d1", "rwm", TRUE), Device("d2", "r", FALSE)>>),
      TaskSpec("", "", "", <<>>, <<>>, <<Device("d1", "rwm", TRUE)>>) }

\* the sequences over S of length at most n
SeqsUpTo(S, n) == UNION { [1..k -> S] : k \in 0..n }

\* the volumes, mounts and devices of the tasks whose setup is planned
PlanVolumes == {AbsVolume, RelVolume, EscVolume, DotVolume, UpVolume}
PlanMounts ==
    { <<>>, <<Mount("h1", TRUE, TRUE)>>,
      <<Mount("h1", TRUE, TRUE), Mount("h2", FALSE, FALSE)>>,
      <<Mount("h2", FALSE, FALSE), Mount("h1", TRUE, TRUE)>> }
PlanDevices ==
    { <<>>, <<Device("d1", "rwm", TRUE)>>, <<Device("d2", "r", FALSE)>>,
      <<Device("d1", "rwm", TRUE), Device("d2", "r", FALSE)>> }

\* the task specifications the setup helpers are applied to: every pair of
\* a verbosity and a log level, every network mode, every combination of
\* volumes, mounts and devices, several resource requests
PlanSpecs ==
    { TaskSpec(v, l, "", <<>>, <<>>, <<>>) :
        v \in verbosityLevels \cup {"loud", "QUIET"}, l \in logLevels \cup {"fatal"} }
    \cup { TaskSpec("", "", m, <<>>, <<>>, <<>>) : m \in {"", "host", "bridge", "none", "Host"} }
    \cup { TaskSpec("", "", "", vs, ms, ds) :
             vs \in SeqsUpTo(PlanVolumes, MaxVolumes), ms \in PlanMounts, ds \in PlanDevices }
    \cup { [DefaultSpec EXCEPT !.MemoryMB = mb, !.CPUShares = sh] :
             mb \in {1, 256, 1024}, sh \in {2, 100} }

\* drivers.TaskConfig: the task ID, the container name "<Name>-<AllocID>"
\* and what the task asks for
TaskConfig(id, n, ts) == [ID |-> id, Name |-> n, Task |-> ts]

\* the calls of StartTask that may overlap: the default task under every ID
\* and container name
StartInputs ==
    { TaskConfig(id, n, DefaultSpec) : id \in TaskIDs, n \in ContainerNames }

\* the calls of StartTask made one at a time: every task specification
SpecInputs == { TaskConfig("t1", "n1", ts) : ts \in TaskSpecs }

\* the calls of StartTask in the specification of the channel loops
LoopInputs == { TaskConfig("t1", "n1", DefaultSpec) }

NoCfg == [ID |-> "", Name |-> "", Task |-> DefaultSpec]

\* Config, as SetConfig leaves it: volumes_enabled either way, network_mode
\* at its default
Configs == { [AllowVolumes |-> b, NetworkMode |-> "bridge"] : b \in BOOLEAN }

\* Config with network_mode at its default or set by the operator
PlanConfigs ==
    { [AllowVolumes |-> b, NetworkMode |-> m] : b \in BOOLEAN, m \in {"bridge", "host", ""} }

(***************************************************************************)
(* The container setup helpers. Each takes the runtime calls that fail     *)
(* (a set of call names) and gives the error ("" for none) and the runtime *)
(* calls it made, in order.                                                *)
(***************************************************************************)
Step(err, calls) == [err |-> err, calls |-> calls]

\* initializeContainer
initializeContainer(cfg, fails) ==
    IF "NewContainer" \in fails
    THEN Step("failed to initialize container", <<"NewContainer">>)
    ELSE IF cfg.Task.Verbosity \notin verbosityLevels
    THEN Step("verbosity can only be either quiet or verbose", <<"NewContainer">>)
    ELSE IF cfg.Task.LogLevel \notin logLevels
    THEN Step("log_level can only be trace, debug, info, warn or error",
              <<"NewContainer", "SetVerbosity">>)
    ELSE IF "SetLogLevel" \in fails
    THEN Step("SetLogLevel", <<"NewContainer", "SetVerbosity", "SetLogLevel">>)
    ELSE IF "SetLogFile" \in fails
    THEN Step("SetLogFile",
              <<"NewContainer", "SetVerbosity", "SetLogLevel", "SetLogFile">>)
    ELSE Step("", <<"NewContainer", "SetVerbosity", "SetLogLevel", "SetLogFile",
                    "lxc.cgroup.dir", "lxc.environment", "LoadConfigFile">>)

\* a resolution that reads the driver-level mode only
networkMode_DriverOnly(cfg, config) == config.NetworkMode

\* the network mode configureContainerNetwork resolves
networkMode(cfg, config) ==
    IF cfg.Task.NetworkMode = "" THEN config.NetworkMode ELSE cfg.Task.NetworkMode

\* configureContainerNetwork
configureContainerNetwork(cfg, config, fails) ==
    LET mode == networkMode(cfg, config)
    IN  IF mode = "host"
        THEN IF "net.type" \in fails
             THEN Step("error setting network type configuration 'none'", <<"net.type=none">>)
             ELSE Step("", <<"net.type=none">>)
        ELSE IF mode = "bridge"
        THEN IF "net.type" \in fails
             THEN Step("error setting network type configuration 'veth'", <<"net.type=veth">>)
             ELSE IF "net.link" \in fails
             THEN Step("error setting network link configuration",
                       <<"net.type=veth", "net.link=lxcbr0">>)
             ELSE IF "net.flags" \in fails
             THEN Step("error setting network flags configuration",
                       <<"net.type=veth", "net.link=lxcbr0", "net.flags=up">>)
             ELSE Step("", <<"net.type=veth", "net.link=lxcbr0", "net.flags=up">>)
        ELSE Step("Network mode is undefined", <<>>)

\* a mount entry "<source> <target> none <perm>,bind,create=<type>"
Entry(src, target, perm, typ) ==
    [src |-> src, target |-> target, perm |-> perm, typ |-> typ]

\* strings.TrimLeft(p, "/")
TrimLeft(p) == Path(FALSE, p.parts)

\* formatMount
formatMount(hostPath, taskPath, readOnly, isDir) ==
    Entry(hostPath, TrimLeft(taskPath),
          IF readOnly THEN "ro" ELSE "rw",
          IF isDir THEN "dir" ELSE "file")

\* formatTaskMounts
formatTaskMounts(mounts) ==
    [i \in 1..Len(mounts) |->
        formatMount(mounts[i].HostPath, mounts[i].TaskPath,
                    mounts[i].Readonly, mounts[i].IsDir)]

\* formatTaskDevices: read-only unless the permissions contain "w"
formatTaskDevices(devices) ==
    [i \in 1..Len(devices) |->
        formatMount(devices[i].HostPath, devices[i].TaskPath,
                    devices[i].Permissions \notin {"w", "rw", "rwm", "wm"}, FALSE)]

\* the error, if any, the volume loop of mountEntries raises on one volume
volumeError(vol, volumesEnabled) ==
    IF IsAbs(vol.src)
    THEN IF ~volumesEnabled
         THEN "absolute bind-mount volume in config but volumes are disabled"
         ELSE ""
    ELSE IF ~volumesEnabled /\ pathEscapesSandbox(TaskDir, Join(TaskDir, vol.src))
         THEN "bind-mount path escapes task directory but volumes are disabled"
         ELSE ""

\* the entry the volume loop of mountEntries appends for one volume
volumeEntry(vol) ==
    Entry(IF IsAbs(vol.src) THEN vol.src ELSE Join(TaskDir, vol.src),
          TrimLeft(vol.target), vol.mode, vol.type)

\* mountEntries appending the device entries before the mount entries
mountEntries_DevicesFirst(cfg, config) ==
    LET vols == cfg.Task.Volumes
        bad == { i \in 1..Len(vols) : volumeError(vols[i], config.AllowVolumes) # "" }
        first == CHOOSE i \in bad : \A j \in bad : i <= j
        fixed == << Entry("local", Path(FALSE, <<"local">>), "rw", "dir"),
                    Entry("alloc", Path(FALSE, <<"alloc">>), "rw", "dir"),
                    Entry("secrets", Path(FALSE, <<"secrets">>), "rw", "dir") >>
    IN  IF bad # {}
        THEN [err |-> volumeError(vols[first], config.AllowVolumes), mounts |-> <<>>]
        ELSE [err |-> "",
              mounts |-> fixed \o formatTaskDevices(cfg.Task.Devices)
                               \o formatTaskMounts(cfg.Task.Mounts)
                               \o [i \in 1..Len(vols) |-> volumeEntry(vols[i])]]

\* mountEntries: the error of the first offending volume, else the entries
mountEntries(cfg, config) ==
    LET vols == cfg.Task.Volumes
        bad == { i \in 1..Len(vols) : volumeError(vols[i], config.AllowVolumes) # "" }
        first == CHOOSE i \in bad : \A j \in bad : i <= j
        fixed == << Entry("local", Path(FALSE, <<"local">>), "rw", "dir"),
                    Entry("alloc", Path(FALSE, <<"alloc">>), "rw", "dir"),
                    Entry("secrets", Path(FALSE, <<"secrets">>), "rw", "dir") >>
    IN  IF bad # {}
        THEN [err |-> volumeError(vols[first], config.AllowVolumes), mounts |-> <<>>]
        ELSE [err |-> "",
              mounts |-> fixed \o formatTaskMounts(cfg.Task.Mounts)
                               \o formatTaskDevices(cfg.Task.Devices)
                               \o [i \in 1..Len(vols) |-> volumeEntry(vols[i])]]

\* devicesCgroupEntries: fails on the first device that does not resolve
devicesCgroupEntries(cfg) ==
    LET devs == cfg.Task.Devices
    IN  IF \E i \in 1..Len(devs) : ~devs[i].Resolves
        THEN [err |-> "DeviceFromPath", entries |-> <<>>]
        ELSE [err |-> "", entries |-> [i \in 1..Len(devs) |-> devs[i].HostPath]]

\* mountVolumes setting the mount entries before it computes the device entries
mountVolumes_Eager(cfg, config, fails) ==
    LET m == mountEntries(cfg, config)
        d == devicesCgroupEntries(cfg)
        sets == [i \in 1..Len(m.mounts) |-> "lxc.mount.entry"]
    IN  IF m.err # "" THEN Step(m.err, <<>>)
        ELSE IF "lxc.mount.entry" \in fails
        THEN Step("error setting bind mount", <<"lxc.mount.entry">>)
        ELSE IF d.err # "" THEN Step(d.err, sets)
        ELSE IF d.entries # <<>> /\ "lxc.cgroup.devices.allow" \in fails
        THEN Step("error setting cgroup permission",
                  sets \o <<"lxc.cgroup.devices.allow">>)
        ELSE Step("", sets \o [i \in 1..Len(d.entries) |-> "lxc.cgroup.devices.allow"])

\* mountVolumes: both lists are computed, then set on the container
mountVolumes(cfg, config, fails) ==
    LET m == mountEntries(cfg, config)
        d == devicesCgroupEntries(cfg)
        sets == [i \in 1..Len(m.mounts) |-> "lxc.mount.entry"]
    IN  IF m.err # "" THEN Step(m.err, <<>>)
        ELSE IF d.err # "" THEN Step(d.err, <<>>)
        ELSE IF "lxc.mount.entry" \in fails
        THEN Step("error setting bind mount", <<"lxc.mount.entry">>)
        ELSE IF d.entries # <<>> /\ "lxc.cgroup.devices.allow" \in fails
        THEN Step("error setting cgroup permission",
                  sets \o <<"lxc.cgroup.devices.allow">>)
        ELSE Step("", sets \o [i \in 1..Len(d.entries) |-> "lxc.cgroup.devices.allow"])

\* lxc.ByteSize(MemoryMB) * lxc.MB
MemoryBytes(cfg) == cfg.Task.MemoryMB * 1048576

\* setResourceLimits without the legacy calls
setResourceLimits_NoFallback(cfg, fails) ==
    IF "memory.max" \in fails
    THEN Step("unable to set memory limits", << <<"memory.max", MemoryBytes(cfg)>> >>)
    ELSE Step(IF "cpu.weight" \in fails THEN "unable to set cpu shares" ELSE "",
              << <<"memory.max", MemoryBytes(cfg)>>, <<"cpu.weight", cfg.Task.CPUShares>> >>)

\* setResourceLimits: the modern key first, the legacy call on its failure
setResourceLimits(cfg, fails) ==
    LET mem == IF "memory.max" \notin fails
               THEN Step("", << <<"memory.max", MemoryBytes(cfg)>> >>)
               ELSE IF "SetMemoryLimit" \notin fails
               THEN Step("", << <<"memory.max", MemoryBytes(cfg)>>,
                                <<"SetMemoryLimit", MemoryBytes(cfg)>> >>)
               ELSE Step("unable to set memory limits",
                         << <<"memory.max", MemoryBytes(cfg)>>,
                            <<"SetMemoryLimit", MemoryBytes(cfg)>> >>)
        cpu == IF "cpu.weight" \notin fails
               THEN Step("", << <<"cpu.weight", cfg.Task.CPUShares>> >>)
               ELSE IF "cpu.shares" \notin fails
               THEN Step("", << <<"cpu.weight", cfg.Task.CPUShares>>,
                                <<"cpu.shares", cfg.Task.CPUShares>> >>)
               ELSE Step("unable to set cpu shares",
                         << <<"cpu.weight", cfg.Task.CPUShares>>,
                            <<"cpu.shares", cfg.Task.CPUShares>> >>)
    IN  IF mem.err # "" THEN mem
        ELSE Step(cpu.err, mem.calls \o cpu.calls)

\* TaskState, the driver state StartTask encodes into the handle it returns
TaskState(cfg, name, startedAt) ==
    [TaskConfig |-> cfg, ContainerName |-> name, StartedAt |-> startedAt]

\* drivers.TaskHandle: nil, or a version and the encoded driver state
TaskHandle(version, state) == [nil |-> FALSE, Version |-> version, State |-> state]
NilHandle == [nil |-> TRUE, Version |-> 0, State |-> TaskState(NoCfg, "", 0)]
NoState == NilHandle.State

(***************************************************************************)
(* State.                                                                  *)
(***************************************************************************)
VARIABLES
    config,      \* Driver.config
    tasks,       \* Driver.tasks: task ID -> index into handles, 0 when absent
    handles,     \* the taskHandle objects that are registered or held by a loop
    containers,  \* the LXC runtime: per name, defined on disk and init pid (0: not running)
    nextPid,     \* the pid the next init process gets
    clock,       \* time.Now()
    calls,       \* the StartTask and RecoverTask handlers in flight (a bag)
    persisted,   \* per task ID, the task handle its last StartTask returned
    loops,       \* the fingerprint, wait and stats goroutines
    shutdown,    \* Driver.ctx is cancelled
    ev,          \* what the last step that changed the state returned to its caller
    setup        \* a call of a container setup helper: its arguments and its result

vars == <<config, tasks, handles, containers, nextPid, clock, calls, persisted,
          loops, shutdown, ev, setup>>

NoEv == [op |-> "", id |-> "", res |-> "", cfg |-> NoCfg, log |-> <<>>, h |-> 0,
         startedAt |-> 0]

\* a handler returns res to the caller of op
Ret(op, id, res) == [NoEv EXCEPT !.op = op, !.id = id, !.res = res]

\* the taskHandle StartTask and RecoverTask build
Handle(id, name, pid, startedAt, exitResult) ==
    [id |-> id, container |-> name, initPid |-> pid, procState |-> "running",
     startedAt |-> startedAt, exitResult |-> exitResult,
     run |-> "start", probe |-> 0]

\* a call of the setup helper op on the task configuration cfg, the runtime
\* calls of fails failing; out is what it returned
Setup(op, cfg, fails, out) == [op |-> op, cfg |-> cfg, fails |-> fails, out |-> out]
NoSetup == Setup("", NoCfg, {}, <<>>)

\* a slot of handles that holds no handle
NoHandle == [Handle("", "", 0, 0, "nil") EXCEPT !.run = "free", !.procState = ""]

Init ==
    /\ config \in Configs
    /\ tasks = [id \in TaskIDs |-> 0]
    /\ handles = [i \in 1..MaxHandles |-> NoHandle]
    /\ containers = [n \in ContainerNames |-> [defined |-> FALSE, pid |-> 0]]
    /\ nextPid = 1
    /\ clock = 1
    /\ calls = EmptyBag
    /\ persisted = [id \in TaskIDs |-> NilHandle]
    /\ loops = {}
    /\ shutdown = FALSE
    /\ ev = NoEv
    /\ setup = NoSetup

(***************************************************************************)
(* The LXC runtime (go-lxc), as the driver uses it.                        *)
(***************************************************************************)
\* c.Running()
Running(conts, n) == conts[n].pid # 0

\* c.InitPid(): -1 when the container is not running
InitPid(conts, n) == IF conts[n].pid # 0 THEN conts[n].pid ELSE -1

\* a process with this pid exists
Alive(conts, pid) == pid > 0 /\ \E n \in ContainerNames : conts[n].pid = pid

\* c.Stop(): an error when the container is not running; else it may fail
Stop(conts, n) ==
    IF ~Running(conts, n) THEN { [c |-> conts, err |-> TRUE] }
    ELSE { [c |-> [conts EXCEPT ![n].pid = 0], err |-> FALSE],
           [c |-> conts, err |-> TRUE] }

\* c.Destroy(): an error unless the container is defined and not running;
\* else it may fail
Destroy(conts, n) ==
    IF ~conts[n].defined \/ Running(conts, n) THEN { [c |-> conts, err |-> TRUE] }
    ELSE { [c |-> [conts EXCEPT ![n].defined = FALSE], err |-> FALSE],
           [c |-> conts, err |-> TRUE] }

\* cleanup() without its c.Running() branch
cleanup_DestroyOnly(conts, n) ==
    { [c |-> d.c, calls |-> <<"Running=false", "Destroy">>, failed |-> d.err] :
        d \in Destroy(conts, n) }

\* the cleanup closure of StartTask: Stop if Running, then Destroy, errors logged
cleanup(conts, n) ==
    IF Running(conts, n)
    THEN UNION { { [c |-> d.c, calls |-> <<"Running=true", "Stop", "Destroy">>,
                    failed |-> s.err \/ d.err] : d \in Destroy(s.c, n) } :
                 s \in Stop(conts, n) }
    ELSE { [c |-> d.c, calls |-> <<"Running=false", "Destroy">>, failed |-> d.err] :
             d \in Destroy(conts, n) }

(***************************************************************************)
(* The task store and the handles it keeps alive.                          *)
(***************************************************************************)
\* tasks.Get
Get(id) == tasks[id]
Registered(id) == Get(id) # 0

\* the handles a store and a set of loops refer to
Live(store, ls) == ({ store[id] : id \in TaskIDs } \cup { l.h : l \in ls }) \ {0}

\* the handles, with those nothing refers to any more dropped
Collect(hs, store, ls) ==
    [i \in 1..MaxHandles |-> IF i \in Live(store, ls) THEN hs[i] ELSE NoHandle]

\* the slot a new handle for id gets: the lowest one that is free once the
\* handle id had is released
NewSlot(id) ==
    LET free == (1..MaxHandles) \ Live([tasks EXCEPT ![id] = 0], loops)
    IN  IF free = {} THEN 0 ELSE CHOOSE i \in free : \A j \in free : i <= j

\* tasks.Set(id, h) on a newly built handle
Set(id, h) ==
    /\ NewSlot(id) # 0
    /\ tasks' = [tasks EXCEPT ![id] = NewSlot(id)]
    /\ handles' = Collect([handles EXCEPT ![NewSlot(id)] = h], tasks', loops)

\* tasks.Delete
Delete(id) ==
    /\ tasks' = [tasks EXCEPT ![id] = 0]
    /\ handles' = Collect(handles, tasks', loops)

(***************************************************************************)
(* The runtime calls that may fail at each step of a task start.           *)
(***************************************************************************)
InitFaults == { {}, {"NewContainer"}, {"SetLogLevel"} }
NetFaults == { {}, {"net.link"} }
MountFaults == { {}, {"lxc.mount.entry"} }
LimitCalls == {"memory.max", "SetMemoryLimit", "cpu.weight", "cpu.shares"}
LimitFaults == { {}, {"memory.max"}, {"cpu.weight", "cpu.shares"} }
RecoverFaults == { {}, {"GetDriverState"}, {"NewContainer"} }

(***************************************************************************)
(* Driver.StartTask, one action per step that reads or changes what the     *)
(* handlers share (the task store, the containers).                        *)
(***************************************************************************)
\* a handler in flight: where it stands, the task configuration it works
\* on, the TaskState it decodes (RecoverTask), the runtime calls it has made
Call(op, pc, cfg, state, log) ==
    [op |-> op, pc |-> pc, cfg |-> cfg, state |-> state, log |-> log]

InFlight == BagToSet(calls)
Replace(c, d) == (calls (-) SetToBag({c})) (+) SetToBag({d})
Remove(c) == calls (-) SetToBag({c})

\* StartTask returns err to its caller
StartRet(c, err, log) ==
    [Ret("StartTask", c.cfg.ID, err) EXCEPT !.cfg = c.cfg, !.log = log]

\* an error return that returns the error of cleanup() when there is one
FailWithCleanup_Escalating(c, err, log) ==
    \E o \in cleanup(containers, c.cfg.Name) :
        /\ containers' = o.c
        /\ calls' = Remove(c)
        /\ ev' = StartRet(c, IF o.failed THEN "failed to clean up" ELSE err, log \o o.calls)
        /\ UNCHANGED <<config, setup, tasks, handles, nextPid, clock, persisted, loops, shutdown>>

\* an error return of StartTask that runs cleanup() first
FailWithCleanup(c, err, log) ==
    \E o \in cleanup(containers, c.cfg.Name) :
        /\ containers' = o.c
        /\ calls' = Remove(c)
        /\ ev' = StartRet(c, err, log \o o.calls)
        /\ UNCHANGED <<config, setup, tasks, handles, nextPid, clock, persisted, loops, shutdown>>

\* an error return of StartTask that runs no cleanup
FailNoCleanup(c, err, log) ==
    /\ calls' = Remove(c)
    /\ ev' = StartRet(c, err, log)
    /\ UNCHANGED <<config, setup, tasks, handles, containers, nextPid, clock, persisted,
                   loops, shutdown>>

\* the handler moves on to its next step
Continue(c, pc, log) ==
    /\ calls' = Replace(c, [c EXCEPT !.pc = pc, !.log = log])
    /\ ev' = NoEv

\* the duplicate check at the head of StartTask: the error it returns, or ""
startCheck(cfg) == IF Registered(cfg.ID) THEN "already started" ELSE ""

\* Driver.StartTask up to its duplicate check; on the error nothing changes
StartTask_Begin(cfg) ==
    IF startCheck(cfg) # ""
    THEN UNCHANGED vars
    ELSE /\ BagCardinality(calls) < MaxCalls
         /\ calls' = calls (+) SetToBag({Call("StartTask", "create", cfg, NoState, <<>>)})
         /\ ev' = NoEv
         /\ UNCHANGED <<config, setup, tasks, handles, containers, nextPid, clock, persisted,
                        loops, shutdown>>

\* d.initializeContainer(cfg, driverConfig), then c.Create(opt): an error
\* when the container is already defined; else it may fail
Start_Create(c) ==
    /\ c.op = "StartTask" /\ c.pc = "create"
    /\ \E f \in InitFaults, ok \in BOOLEAN :
         LET r == initializeContainer(c.cfg, f)
             log == c.log \o r.calls
         IN  IF r.err # ""
             THEN FailNoCleanup(c, r.err, log)
             ELSE IF containers[c.cfg.Name].defined \/ ~ok
             THEN FailNoCleanup(c, "recoverable: create", Append(log, "Create"))
             ELSE /\ containers' = [containers EXCEPT ![c.cfg.Name].defined = TRUE]
                  /\ Continue(c, "execute", Append(log, "Create=ok"))
                  /\ UNCHANGED <<config, setup, tasks, handles, nextPid, clock, persisted, loops,
                                 shutdown>>

\* d.configureContainerNetwork, d.mountVolumes, then
\* c.StartExecute(driverConfig.Command): an error unless the container is
\* defined and not running; else it may fail
Start_Execute(c) ==
    /\ c.op = "StartTask" /\ c.pc = "execute"
    /\ \E nf \in NetFaults, mf \in MountFaults, ok \in BOOLEAN :
         LET n == c.cfg.Name
             net == configureContainerNetwork(c.cfg, config, nf)
             mnt == mountVolumes(c.cfg, config, mf)
             log == c.log \o net.calls \o mnt.calls
         IN  IF net.err # ""
             THEN FailWithCleanup(c, net.err, c.log \o net.calls)
             ELSE IF mnt.err # ""
             THEN FailWithCleanup(c, mnt.err, log)
             ELSE IF ~containers[n].defined \/ Running(containers, n) \/ ~ok
             THEN FailWithCleanup(c, "unable to start container",
                                  Append(log, "StartExecute"))
             ELSE /\ nextPid <= MaxPid
                  /\ containers' = [containers EXCEPT ![n].pid = nextPid]
                  /\ nextPid' = nextPid + 1
                  /\ Continue(c, "limits", Append(log, "StartExecute=ok"))
                  /\ UNCHANGED <<config, setup, tasks, handles, clock, persisted, loops, shutdown>>

\* d.setResourceLimits(c, cfg): every cgroup call fails on a container that
\* is no longer running
Start_Limits(c) ==
    /\ c.op = "StartTask" /\ c.pc = "limits"
    /\ \E f \in LimitFaults :
         LET r == setResourceLimits(c.cfg,
                     IF Running(containers, c.cfg.Name) THEN f ELSE LimitCalls)
             log == Append(c.log, "setResourceLimits")
         IN  IF r.err # ""
             THEN FailWithCleanup(c, r.err, log)
             ELSE /\ Continue(c, "register", log)
                  /\ UNCHANGED <<config, setup, tasks, handles, containers, nextPid, clock,
                                 persisted, loops, shutdown>>

\* a taskHandle whose poller runs before the handle is registered
startedHandle_Monitored(cfg, startedAt) ==
    [Handle(cfg.ID, cfg.Name, InitPid(containers, cfg.Name), startedAt, "zero")
       EXCEPT !.run = "poll", !.probe = InitPid(containers, cfg.Name)]

\* the taskHandle StartTask builds
startedHandle(cfg, startedAt) ==
    Handle(cfg.ID, cfg.Name, InitPid(containers, cfg.Name), startedAt, "nil")

\* c.InitPid(), the handle, handle.SetDriverState, d.tasks.Set, go h.run()
Start_Register(c) ==
    /\ c.op = "StartTask" /\ c.pc = "register"
    /\ \E ok \in BOOLEAN :
         LET log == c.log \o <<"InitPid", "SetDriverState">>
         IN  IF ~ok
             THEN FailWithCleanup(c, "failed to set driver state", log)
             ELSE /\ clock <= MaxTime
                  /\ Set(c.cfg.ID, startedHandle(c.cfg, clock))
                  /\ clock' = clock + 1
                  /\ persisted' = [persisted EXCEPT ![c.cfg.ID] =
                       TaskHandle(taskHandleVersion, TaskState(c.cfg, c.cfg.Name, clock))]
                  /\ calls' = Remove(c)
                  /\ ev' = [StartRet(c, "ok", log \o <<"Set", "run">>)
                              EXCEPT !.h = tasks'[c.cfg.ID], !.startedAt = clock]
                  /\ UNCHANGED <<config, setup, containers, nextPid, loops, shutdown>>

(***************************************************************************)
(* Driver.RecoverTask.                                                     *)
(***************************************************************************)
\* the handles RecoverTask is called with: nil, or one StartTask returned
\* (a handle of version 0 goes to recoverPre09Task, which is not modelled)
RecoverInputs == { persisted[id] : id \in TaskIDs } \cup {NilHandle}

\* the checks at the head of RecoverTask without the look-up in the store
recoverCheck_Unchecked(handle) ==
    IF handle.nil THEN "handle cannot be nil" ELSE ""

\* the checks at the head of RecoverTask: what it returns there ("ok": the
\* task is registered already), or "" when it goes on
recoverCheck(handle) ==
    IF handle.nil THEN "handle cannot be nil"
    ELSE IF Registered(handle.State.TaskConfig.ID) THEN "ok"
    ELSE ""

\* Driver.RecoverTask up to its check of the task store; when it returns
\* there nothing changes
RecoverTask_Begin(handle) ==
    IF recoverCheck(handle) # ""
    THEN UNCHANGED vars
    ELSE /\ BagCardinality(calls) < MaxCalls
         /\ calls' = calls (+) SetToBag({Call("RecoverTask", "attach",
                                   handle.State.TaskConfig, handle.State, <<>>)})
         /\ ev' = NoEv
         /\ UNCHANGED <<config, setup, tasks, handles, containers, nextPid, clock, persisted,
                        loops, shutdown>>

\* RecoverTask returns res
RecoverRet(c, res, log) ==
    [Ret("RecoverTask", c.cfg.ID, res)
       EXCEPT !.cfg = c.cfg, !.log = log, !.startedAt = c.state.StartedAt]

\* RecoverTask stamping the handle with the time of the recovery
recoveredHandle_Now(taskState) ==
    Handle(taskState.TaskConfig.ID, taskState.ContainerName,
           InitPid(containers, taskState.ContainerName), clock, "zero")

\* the taskHandle RecoverTask builds from the decoded TaskState
recoveredHandle(taskState) ==
    Handle(taskState.TaskConfig.ID, taskState.ContainerName,
           InitPid(containers, taskState.ContainerName), taskState.StartedAt,
           "zero")

\* handle.GetDriverState, lxc.NewContainer, c.InitPid(), the handle,
\* d.tasks.Set, go h.run()
Recover_Attach(c) ==
    /\ c.op = "RecoverTask" /\ c.pc = "attach"
    /\ \E f \in RecoverFaults :
         IF "GetDriverState" \in f
         THEN /\ calls' = Remove(c)
              /\ ev' = RecoverRet(c, "failed to decode task state from handle",
                                  <<"GetDriverState">>)
              /\ UNCHANGED <<config, setup, tasks, handles, containers, nextPid, clock,
                             persisted, loops, shutdown>>
         ELSE IF "NewContainer" \in f
         THEN /\ calls' = Remove(c)
              /\ ev' = RecoverRet(c, "failed to create container ref",
                                  <<"GetDriverState", "NewContainer">>)
              /\ UNCHANGED <<config, setup, tasks, handles, containers, nextPid, clock,
                             persisted, loops, shutdown>>
         ELSE /\ Set(c.state.TaskConfig.ID, recoveredHandle(c.state))
              /\ calls' = Remove(c)
              /\ ev' = [RecoverRet(c, "ok", <<"GetDriverState", "NewContainer",
                                             "InitPid", "Set", "run">>)
                          EXCEPT !.h = tasks'[c.state.TaskConfig.ID]]
              /\ UNCHANGED <<config, setup, containers, nextPid, clock, persisted, loops,
                             shutdown>>

(***************************************************************************)
(* taskHandle: the poller, the status and the shutdown of one handle.      *)
(***************************************************************************)
\* waitTillStopped, before its loop: os.FindProcess(c.InitPid())
findProcess(h) == InitPid(containers, h.container)

\* a probe that reports every process alive
probeFails_Never(pid) == FALSE

\* a probe that reports every process gone
probeFails_Always(pid) == TRUE

\* waitTillStopped, one round of its loop: ps.Signal(0) fails
probeFails(pid) == ~Alive(containers, pid)

\* h.run() starts: the exit result is allocated, the process is looked up
Run_Begin(i) ==
    /\ handles[i].run = "start"
    /\ handles' = [handles EXCEPT ![i].run = "poll",
                                  ![i].probe = findProcess(handles[i]),
                                  ![i].exitResult = IF @ = "nil" THEN "zero" ELSE @]
    /\ ev' = NoEv
    /\ UNCHANGED <<config, setup, tasks, containers, nextPid, clock, calls, persisted,
                   loops, shutdown>>

\* h.run() ends: the probe failed, the handle is marked exited
Run_Exit(i) ==
    /\ handles[i].run = "poll"
    /\ probeFails(handles[i].probe)
    /\ handles' = [handles EXCEPT ![i].run = "done", ![i].procState = "exited",
                                  ![i].exitResult = "exit0"]
    /\ ev' = NoEv
    /\ UNCHANGED <<config, setup, tasks, containers, nextPid, clock, calls, persisted,
                   loops, shutdown>>

\* h.TaskStatus()
TaskStatus(h) == [State |-> h.procState, pid |-> h.initPid, StartedAt |-> h.startedAt,
                  ExitResult |-> h.exitResult]

\* h.IsRunning()
IsRunning(h) == h.procState = "running"

\* h.shutdown(timeout): nothing to do on a container that is not running;
\* else the container stops, or the shutdown and the forced stop both fail
handleShutdown(conts, n) ==
    IF ~Running(conts, n) THEN { [c |-> conts, err |-> FALSE] }
    ELSE { [c |-> [conts EXCEPT ![n].pid = 0], err |-> FALSE],
           [c |-> conts, err |-> TRUE] }

(***************************************************************************)
(* The channel loops: Fingerprint, WaitTask, TaskStats.                    *)
(***************************************************************************)
\* a goroutine serving a channel: its kind, the handle it reads, where it
\* stands, whether the caller's context is cancelled, whether the caller
\* still receives from the channel
Loop(kind, h) ==
    [kind |-> kind, h |-> h, pc |-> "select", ctxDone |-> FALSE, reading |-> TRUE]

(***************************************************************************)
(* The task-directed handlers. Each is an operator giving what a call may  *)
(* do: the value returned, the containers, whether the task is deleted     *)
(* from the store, the goroutines started.                                 *)
(***************************************************************************)
ErrTaskNotFound == "task not found"

Out(res, conts, del, spawn) == [res |-> res, c |-> conts, del |-> del, spawn |-> spawn]

\* the return on a task ID the store does not hold
NotFound == { Out(ErrTaskNotFound, containers, FALSE, {}) }

\* StopTask that also drops the task from the store
StopTask_Deleting(id) ==
    IF ~Registered(id) THEN NotFound
    ELSE { Out(IF o.err THEN "executor Shutdown failed" ELSE "ok", o.c, TRUE, {}) :
             o \in handleShutdown(containers, handles[Get(id)].container) }

\* Driver.StopTask
StopTask(id) ==
    IF ~Registered(id) THEN NotFound
    ELSE { Out(IF o.err THEN "executor Shutdown failed" ELSE "ok", o.c, FALSE, {}) :
             o \in handleShutdown(containers, handles[Get(id)].container) }

\* DestroyTask that keeps the task when the shutdown or the destruction fails
DestroyTask_KeepOnFailure(id, force) ==
    IF ~Registered(id) THEN NotFound
    ELSE LET h == handles[Get(id)]
             stopped == IF IsRunning(h) THEN handleShutdown(containers, h.container)
                        ELSE { [c |-> containers, err |-> FALSE] }
         IN  IF IsRunning(h) /\ ~force
             THEN { Out("cannot destroy running task", containers, FALSE, {}) }
             ELSE UNION { { Out(IF o.err \/ d.err THEN "failed to destroy" ELSE "ok",
                                d.c, ~(o.err \/ d.err), {}) :
                              d \in Destroy(o.c, h.container) } :
                          o \in stopped }

\* DestroyTask that treats every call as forced
DestroyTask_Forced(id, force) ==
    IF ~Registered(id) THEN NotFound
    ELSE LET h == handles[Get(id)]
             stopped == IF IsRunning(h) THEN handleShutdown(containers, h.container)
                        ELSE { [c |-> containers, err |-> FALSE] }
         IN  UNION { { Out("ok", d.c, TRUE, {}) : d \in Destroy(o.c, h.container) } :
                     o \in stopped }

\* Driver.DestroyTask
DestroyTask(id, force) ==
    IF ~Registered(id) THEN NotFound
    ELSE LET h == handles[Get(id)]
             stopped == IF IsRunning(h) THEN handleShutdown(containers, h.container)
                        ELSE { [c |-> containers, err |-> FALSE] }
         IN  IF IsRunning(h) /\ ~force
             THEN { Out("cannot destroy running task", containers, FALSE, {}) }
             ELSE UNION { { Out("ok", d.c, TRUE, {}) : d \in Destroy(o.c, h.container) } :
                          o \in stopped }

\* Driver.InspectTask
InspectTask(id) ==
    IF ~Registered(id) THEN NotFound
    ELSE { [Out("ok", containers, FALSE, {}) EXCEPT !.res = TaskStatus(handles[Get(id)])] }

\* WaitTask without its check of the task store
WaitTask_Unchecked(id) == { Out("ok", containers, FALSE, {Loop("wait", Get(id))}) }

\* Driver.WaitTask: go d.handleWait(ctx, handle, ch)
WaitTask(id) ==
    IF ~Registered(id) THEN NotFound
    ELSE { Out("ok", containers, FALSE, {Loop("wait", Get(id))}) }

\* Driver.TaskStats: handle.stats(ctx, interval)
TaskStats(id) ==
    IF ~Registered(id) THEN NotFound
    ELSE { Out("ok", containers, FALSE, {Loop("stats", Get(id))}) }

\* Driver.Fingerprint: go d.handleFingerprint(ctx, ch)
Fingerprint == { Out("ok", containers, FALSE, {Loop("fingerprint", 0)}) }

\* a call of a task-directed handler: one of its outcomes happens; ev takes
\* the return when the call changed the state
Handler(op, id, outs) ==
    \E o \in outs :
        /\ Cardinality(loops \cup o.spawn) <= MaxLoops
        /\ containers' = o.c
        /\ loops' = loops \cup o.spawn
        /\ IF o.del THEN Delete(id) ELSE UNCHANGED <<tasks, handles>>
        /\ ev' = IF o.c = containers /\ ~o.del /\ o.spawn \subseteq loops
                 THEN ev
                 ELSE [Ret(op, id, o.res) EXCEPT !.h = IF id = "" THEN 0 ELSE Get(id)]
        /\ UNCHANGED <<config, setup, nextPid, clock, calls, persisted, shutdown>>

Call_StopTask(id) == Handler("StopTask", id, StopTask(id))
Call_DestroyTask(id, force) == Handler("DestroyTask", id, DestroyTask(id, force))
Call_InspectTask(id) == Handler("InspectTask", id, { [o EXCEPT !.res = "ok"] : o \in InspectTask(id) })
Call_WaitTask(id) == Handler("WaitTask", id, WaitTask(id))
Call_TaskStats(id) == Handler("TaskStats", id, TaskStats(id))
Call_Fingerprint == Handler("Fingerprint", "", Fingerprint)

(***************************************************************************)
(* The steps of the loops.                                                 *)
(***************************************************************************)
\* loop l becomes the loops m (none when it ends)
LoopStep(l, m) ==
    /\ loops' = (loops \ {l}) \cup m
    /\ handles' = Collect(handles, tasks, loops')
    /\ UNCHANGED <<config, setup, tasks, containers, nextPid, clock, calls, persisted, shutdown>>

\* the select of handleFingerprint and handleWait takes a Done case: the
\* goroutine returns and its deferred close(ch) runs
Loop_Cancel(l) ==
    /\ l.kind \in {"fingerprint", "wait"}
    /\ l.pc = "select"
    /\ l.ctxDone \/ shutdown
    /\ LoopStep(l, {})
    /\ ev' = [Ret("close", "", l.kind) EXCEPT !.h = l.h]

\* a ticker case that sends whatever the status of the handle is
Loop_Tick_Unchecked(l) ==
    /\ l.kind \in {"fingerprint", "wait"}
    /\ l.pc = "select"
    /\ LoopStep(l, {[l EXCEPT !.pc = "send"]})
    /\ ev' = NoEv

\* the select takes the ticker case: the fingerprint loop goes on to send;
\* the wait loop does when the handle's status is exited
Loop_Tick(l) ==
    /\ l.kind \in {"fingerprint", "wait"}
    /\ l.pc = "select"
    /\ l.kind = "wait" => TaskStatus(handles[l.h]).State = "exited"
    /\ LoopStep(l, {[l EXCEPT !.pc = "send"]})
    /\ ev' = NoEv

\* ch <- value: completes when the caller receives
Loop_Send(l) ==
    /\ l.kind \in {"fingerprint", "wait"}
    /\ l.pc = "send"
    /\ l.reading
    /\ LoopStep(l, {[l EXCEPT !.pc = "select"]})
    /\ ev' = [Ret("recv", "", IF l.kind = "wait" THEN handles[l.h].exitResult
                               ELSE "fingerprint")
                EXCEPT !.h = l.h]

\* the stats goroutine: a sample is offered in the same select that sees the
\* caller's cancellation; it ends on cancellation or when the task has exited
Stats_End(l) ==
    /\ l.kind = "stats"
    /\ l.ctxDone \/ handles[l.h].procState = "exited"
    /\ LoopStep(l, {})
    /\ ev' = [Ret("close", "", l.kind) EXCEPT !.h = l.h]

\* the caller cancels the context it passed
CallerCancels(l) ==
    /\ ~l.ctxDone
    /\ LoopStep(l, {[l EXCEPT !.ctxDone = TRUE]})
    /\ ev' = NoEv

\* the caller stops receiving from the channel
CallerStopsReading(l) ==
    /\ l.reading
    /\ LoopStep(l, {[l EXCEPT !.reading = FALSE]})
    /\ ev' = NoEv

\* Driver.Shutdown: d.signalShutdown()
Shutdown ==
    /\ ~shutdown
    /\ shutdown' = TRUE
    /\ ev' = Ret("Shutdown", "", "ok")
    /\ UNCHANGED <<config, setup, tasks, handles, containers, nextPid, clock, calls,
                   persisted, loops>>

(***************************************************************************)
(* The environment.                                                        *)
(***************************************************************************)
\* the init process of a container exits
ContainerExit(n) ==
    /\ Running(containers, n)
    /\ containers' = [containers EXCEPT ![n].pid = 0]
    /\ ev' = NoEv
    /\ UNCHANGED <<config, setup, tasks, handles, nextPid, clock, calls, persisted, loops,
                   shutdown>>

\* the driver process is restarted: NewLXCDriver builds an empty driver; the
\* containers and the handles its callers hold outlive it
NewLXCDriver ==
    /\ Live(tasks, loops) # {} \/ calls # EmptyBag \/ loops # {} \/ shutdown
    /\ tasks' = [id \in TaskIDs |-> 0]
    /\ handles' = [i \in 1..MaxHandles |-> NoHandle]
    /\ calls' = EmptyBag
    /\ loops' = {}
    /\ shutdown' = FALSE
    /\ ev' = Ret("NewLXCDriver", "", "ok")
    /\ UNCHANGED <<config, setup, containers, nextPid, clock, persisted>>

\* no return is pending: the caller has taken what the last step returned
Idle == ev = NoEv

\* the steps of a task start in flight
StartSteps ==
    \/ Idle /\ \E c \in InFlight : Start_Create(c)
    \/ Idle /\ \E c \in InFlight : Start_Execute(c)
    \/ Idle /\ \E c \in InFlight : Start_Limits(c)
    \/ Idle /\ \E c \in InFlight : Start_Register(c)

\* the steps of the pollers and of the containers
Pollers ==
    \/ Idle /\ \E i \in DOMAIN handles : Run_Begin(i)
    \/ Idle /\ \E i \in DOMAIN handles : Run_Exit(i)
    \/ Idle /\ \E n \in ContainerNames : ContainerExit(n)

\* the steps of the channel loops and of their callers
Channels ==
    \/ Idle /\ \E id \in TaskIDs : Call_WaitTask(id)
    \/ Idle /\ \E id \in TaskIDs : Call_TaskStats(id)
    \/ Idle /\ Call_Fingerprint
    \/ Idle /\ \E l \in loops : Loop_Cancel(l)
    \/ Idle /\ \E l \in loops : Loop_Tick(l)
    \/ Idle /\ \E l \in loops : Loop_Send(l)
    \/ Idle /\ \E l \in loops : Stats_End(l)
    \/ Idle /\ \E l \in loops : CallerCancels(l)
    \/ Idle /\ \E l \in loops : CallerStopsReading(l)
    \/ Idle /\ Shutdown

\* the caller takes what the last step returned
Returned ==
    /\ ev # NoEv
    /\ ev' = NoEv
    /\ UNCHANGED <<config, setup, tasks, handles, containers, nextPid, clock, calls, persisted,
                   loops, shutdown>>

Lifecycle ==
    \/ Idle /\ \E cfg \in StartInputs : StartTask_Begin(cfg)
    \/ StartSteps
    \/ Idle /\ \E handle \in RecoverInputs : RecoverTask_Begin(handle)
    \/ Idle /\ \E c \in InFlight : Recover_Attach(c)
    \/ Pollers
    \/ Idle /\ \E id \in TaskIDs : Call_StopTask(id)
    \/ Idle /\ \E id \in TaskIDs, force \in BOOLEAN : Call_DestroyTask(id, force)
    \/ Idle /\ \E id \in TaskIDs : Call_InspectTask(id)
    \/ Idle /\ NewLXCDriver

Next == Lifecycle \/ Returned

\* the task lifecycle: overlapping handlers, recovery, restarts
Spec == Init /\ [][Next]_vars

Starts ==
    \/ Idle /\ \E cfg \in SpecInputs : calls = EmptyBag /\ StartTask_Begin(cfg)
    \/ StartSteps
    \/ Pollers
    \/ Idle /\ \E id \in TaskIDs : Call_StopTask(id)
    \/ Idle /\ \E id \in TaskIDs, force \in BOOLEAN : Call_DestroyTask(id, force)

NextStart == Starts \/ Returned

\* the task start over every task specification, one start at a time
SpecStart == Init /\ [][NextStart]_vars

Subscriptions ==
    \/ Idle /\ \E cfg \in LoopInputs : calls = EmptyBag /\ StartTask_Begin(cfg)
    \/ StartSteps
    \/ Pollers
    \/ Idle /\ \E id \in TaskIDs, force \in BOOLEAN : Call_DestroyTask(id, force)
    \/ Channels

NextLoops == Subscriptions \/ Returned

\* the channel loops, over default tasks started one at a time
SpecLoops == Init /\ [][NextLoops]_vars

\* the steps of the wait subscriptions on default tasks started one at a time
Waits ==
    \/ Idle /\ \E cfg \in LoopInputs : calls = EmptyBag /\ StartTask_Begin(cfg)
    \/ StartSteps
    \/ Pollers
    \/ Idle /\ \E id \in TaskIDs : Call_StopTask(id)
    \/ Idle /\ \E id \in TaskIDs : Call_WaitTask(id)
    \/ Idle /\ \E l \in loops : Loop_Cancel(l)
    \/ Idle /\ \E l \in loops : Loop_Tick(l)
    \/ Idle /\ \E l \in loops : Loop_Send(l)
    \/ Idle /\ \E l \in loops : CallerCancels(l)
    \/ Idle /\ \E l \in loops : CallerStopsReading(l)
    \/ Idle /\ Shutdown

NextWait == Waits \/ Returned

\* the wait goroutine of handle h whose caller receives and has not cancelled
Waiting(h, pc) == [Loop("wait", h) EXCEPT !.pc = pc]

\* the ticker of a wait goroutine fires again and again, a send to a caller
\* that receives completes, a caller takes the value a handler returns
WaitFairness ==
    /\ \A h \in 1..MaxHandles :
           SF_vars(Idle /\ Waiting(h, "select") \in loops /\ Loop_Tick(Waiting(h, "select")))
    /\ \A h \in 1..MaxHandles :
           SF_vars(Idle /\ Waiting(h, "send") \in loops /\ Loop_Send(Waiting(h, "send")))
    /\ WF_vars(Returned)

\* the wait subscriptions, with tickers and sends that are scheduled
SpecWait == Init /\ [][NextWait]_vars /\ WaitFairness

(***************************************************************************)
(* The container setup helpers on their own: a task configuration and a    *)
(* driver configuration are drawn, one helper is applied to them.          *)
(***************************************************************************)
InitPlan ==
    /\ config \in PlanConfigs
    /\ setup \in { Setup("", TaskConfig("t1", "n1", ts), {}, <<>>) : ts \in PlanSpecs }
    /\ tasks = [id \in TaskIDs |-> 0]
    /\ handles = [i \in 1..MaxHandles |-> NoHandle]
    /\ containers = [n \in ContainerNames |-> [defined |-> FALSE, pid |-> 0]]
    /\ nextPid = 1
    /\ clock = 1
    /\ calls = EmptyBag
    /\ persisted = [id \in TaskIDs |-> NilHandle]
    /\ loops = {}
    /\ shutdown = FALSE
    /\ ev = NoEv

\* the helper op is applied to the drawn configuration and returns out
Plan(op, fails, out) ==
    /\ setup.op = ""
    /\ setup' = Setup(op, setup.cfg, fails, out)
    /\ UNCHANGED <<config, tasks, handles, containers, nextPid, clock, calls, persisted,
                   loops, shutdown, ev>>

Plan_initializeContainer ==
    \E f \in InitFaults : Plan("initializeContainer", f, initializeContainer(setup.cfg, f))
Plan_configureContainerNetwork ==
    \E f \in NetFaults :
        Plan("configureContainerNetwork", f, configureContainerNetwork(setup.cfg, config, f))
Plan_mountEntries ==
    Plan("mountEntries", {}, mountEntries(setup.cfg, config))
Plan_mountVolumes ==
    \E f \in MountFaults : Plan("mountVolumes", f, mountVolumes(setup.cfg, config, f))
Plan_setResourceLimits ==
    \E f \in SUBSET LimitCalls : Plan("setResourceLimits", f, setResourceLimits(setup.cfg, f))

NextPlan ==
    \/ Plan_initializeContainer
    \/ Plan_configureContainerNetwork
    \/ Plan_mountEntries
    \/ Plan_mountVolumes
    \/ Plan_setResourceLimits

\* the setup helpers, each applied to every drawn configuration
SpecPlan == InitPlan /\ [][NextPlan]_vars

\* every poller is a goroutine of its own, scheduled again and again whatever
\* the handlers do; a caller takes the value a handler returns
PollFairness ==
    /\ \A i \in 1..MaxHandles : SF_vars(Idle /\ Run_Begin(i))
    /\ \A i \in 1..MaxHandles : SF_vars(Idle /\ Run_Exit(i))
    /\ WF_vars(Returned)

\* the task start, one start at a time, with pollers that are scheduled
SpecPoll == Init /\ [][NextStart]_vars /\ PollFairness

(***************************************************************************)
(* The properties. ev holds what the last state-changing step returned, so *)
(* a state predicate on ev speaks of the state a handler returns in.       *)
(***************************************************************************)
Range(s) == { s[i] : i \in DOMAIN s }

\* log ends with the calls t
EndsWith(log, t) ==
    Len(log) >= Len(t) /\ SubSeq(log, Len(log) - Len(t) + 1, Len(log)) = t

StartReturned == ev.op = "StartTask"
StartFailed == ev.op = "StartTask" /\ ev.res # "ok"
StartSucceeded == ev.op = "StartTask" /\ ev.res = "ok"

\* what InspectTask returns for a registered task
Inspect(id) == (CHOOSE o \in InspectTask(id) : TRUE).res

\* the state InspectTask reports, "" when it reports that the task is not found
InspectState(id) == IF Registered(id) THEN Inspect(id).State ELSE ""

\* C1: a StartTask that succeeds for a task ID found that ID unregistered at
\* the moment it registered its handle: no second start succeeds for a
\* registered ID and no registered handle is replaced by a start.
C1_DuplicateStartRejected ==
    [][(ev'.op = "StartTask" /\ ev'.res = "ok") => ~Registered(ev'.id)]_vars

\* the calls cleanup() makes on a container that runs, and on one that does not
RollbackRunning == <<"Running=true", "Stop", "Destroy">>
RollbackStopped == <<"Running=false", "Destroy">>

\* C2 (as amended): whenever StartTask fails at a step after c.Create has
\* succeeded, the rollback runs before the error is returned: Stop is called
\* if the container is running at that moment, and then Destroy is called.
C2_RollbackAfterCreate ==
    [][(ev'.op = "StartTask" /\ ev'.res # "ok" /\ "Create=ok" \in Range(ev'.log))
         => IF Running(containers, ev'.cfg.Name)
            THEN EndsWith(ev'.log, RollbackRunning)
            ELSE EndsWith(ev'.log, RollbackStopped)]_vars

\* a start failed on a running container and rolled it back
C2_Witness ==
    StartFailed /\ "StartExecute=ok" \in Range(ev.log) /\ EndsWith(ev.log, RollbackRunning)

\* C2 (as stated): whenever StartTask fails at a step after the container
\* object exists (initializeContainer has returned it), the container is
\* stopped if running and then destroyed before the error is returned.
C2_RollbackOnceObjectExists ==
    (StartFailed /\ "LoadConfigFile" \in Range(ev.log))
        => EndsWith(ev.log, RollbackRunning) \/ EndsWith(ev.log, RollbackStopped)

\* the validation errors of a task start
ValidationErrors ==
    { "verbosity can only be either quiet or verbose",
      "log_level can only be trace, debug, info, warn or error",
      "absolute bind-mount volume in config but volumes are disabled",
      "bind-mount path escapes task directory but volumes are disabled",
      "Network mode is undefined" }

\* C3: a StartTask that returns a validation error has not created a
\* container: the create step is not among the calls it made.
C3_ValidationBeforeCreate ==
    (StartReturned /\ ev.res \in ValidationErrors)
        => Range(ev.log) \cap {"Create", "Create=ok"} = {}

\* the task specification has a volume with an absolute source path
HasAbsVolume(cfg) ==
    \E i \in DOMAIN cfg.Task.Volumes : IsAbs(cfg.Task.Volumes[i].src)

\* C4: a StartTask of a task with an absolute volume source, volumes being
\* disabled, returns an error, and when it returns the task ID is not in the
\* store and the task's container is neither defined nor running.
C4_AbsVolumeLeavesNothing ==
    (StartReturned /\ HasAbsVolume(ev.cfg) /\ ~config.AllowVolumes)
        => /\ ev.res # "ok"
           /\ ~Registered(ev.id)
           /\ ~containers[ev.cfg.Name].defined
           /\ ~Running(containers, ev.cfg.Name)

C6_NoExitedToRunning ==
    [][\A id \in TaskIDs :
         InspectState(id) = "exited" => InspectState(id)' # "running"]_vars

\* C7: on a task ID the store does not hold, StopTask, DestroyTask,
\* InspectTask, TaskStats and WaitTask all return the task-not-found error,
\* start no goroutine, delete nothing and leave every container as it is.
C7_NotFound ==
    \A id \in TaskIDs :
        ~Registered(id) =>
            \A o \in StopTask(id) \cup DestroyTask(id, TRUE) \cup DestroyTask(id, FALSE)
                       \cup InspectTask(id) \cup TaskStats(id) \cup WaitTask(id) :
                /\ o.res = ErrTaskNotFound
                /\ o.c = containers
                /\ ~o.del
                /\ o.spawn = {}

\* a task ID the store does not hold (the driver was restarted) while the
\* container of that task still runs
C7_Witness ==
    \E id \in TaskIDs :
        /\ ~Registered(id)
        /\ ~persisted[id].nil
        /\ Running(containers, persisted[id].State.ContainerName)
        /\ ev.op = "NewLXCDriver"

\* C8 (as amended): while a task is registered and the init process its
\* handle recorded is alive, InspectTask reports the state running and that
\* process, a positive pid, the init process of the task's container.
C8_InspectRunning ==
    \A id \in TaskIDs :
        (Registered(id) /\ Alive(containers, handles[Get(id)].initPid))
            => /\ Inspect(id).State = "running"
               /\ Inspect(id).pid > 0
               /\ Inspect(id).pid = InitPid(containers, handles[Get(id)].container)

\* StartTask has just returned success and the init process is alive
C8_Witness ==
    /\ StartSucceeded
    /\ Registered(ev.id)
    /\ Alive(containers, handles[Get(ev.id)].initPid)

\* C8 (as stated): for a task registered by a successful StartTask,
\* InspectTask reports the state running and a non-zero pid.
C8_InspectAfterStart ==
    \A id \in TaskIDs :
        Registered(id) => Inspect(id).State = "running" /\ Inspect(id).pid # 0

\* the runtime calls that configure, create or start a container
SetupCalls ==
    { "SetVerbosity", "SetLogLevel", "SetLogFile", "lxc.cgroup.dir", "lxc.environment",
      "LoadConfigFile", "Create", "Create=ok", "net.type=none", "net.type=veth",
      "net.link=lxcbr0", "net.flags=up", "lxc.mount.entry", "lxc.cgroup.devices.allow",
      "StartExecute", "StartExecute=ok", "setResourceLimits" }

\* C9: the driver state a successful StartTask persists names the task ID,
\* the container and the start time of the handle it registered; RecoverTask,
\* given a persisted state on a driver that does not hold the task, registers
\* under that task ID a handle on the container of that name, with that start
\* time, in state running and with the init pid the container has now, and
\* makes no configuration, create or start call.
C9_RecoverRoundTrip ==
    /\ StartSucceeded =>
         LET st == persisted[ev.id].State
             h == handles[ev.h]
         IN  /\ ~persisted[ev.id].nil /\ persisted[ev.id].Version = taskHandleVersion
             /\ st.TaskConfig = ev.cfg
             /\ st.ContainerName = h.container
             /\ st.StartedAt = h.startedAt
             /\ h.id = ev.id
    /\ (ev.op = "RecoverTask" /\ ev.res = "ok") =>
         LET h == handles[ev.h]
         IN  /\ Get(ev.id) = ev.h /\ ev.h # 0
             /\ h.id = ev.cfg.ID /\ ev.id = ev.cfg.ID
             /\ h.container = ev.cfg.Name
             /\ h.startedAt = ev.startedAt
             /\ TaskStatus(h).State = "running"
             /\ h.initPid = InitPid(containers, h.container)
             /\ Range(ev.log) \cap SetupCalls = {}

\* RecoverTask has registered a handle on a container whose init process is
\* alive
C9_Witness ==
    /\ ev.op = "RecoverTask" /\ ev.res = "ok"
    /\ Alive(containers, handles[ev.h].initPid)
    /\ ev.startedAt = persisted[ev.id].State.StartedAt

\* C10: a fingerprint or wait loop whose caller's context or whose driver's
\* context is cancelled is not blocked sending to a channel nobody receives
\* from: it blocks only on its timer or on a cancellation signal, and so
\* goes on to return and close its channel.
C10_LoopsEndOnCancel ==
    \A l \in loops :
        (l.kind \in {"fingerprint", "wait"} /\ (l.ctxDone \/ shutdown))
            => ~(l.pc = "send" /\ ~l.reading)

\* the poller of handle i has not reported yet and the init process the
\* handle recorded is gone
DeadUnreported(i) ==
    /\ handles[i].run \in {"start", "poll"}
    /\ ~Alive(containers, handles[i].initPid)

\* C11: the poller marks a handle exited only on a probe that fails, that is
\* when the probed init process is gone; a handle whose init process is gone
\* does not stay unreported: its poller's next probe fails and the handle
\* becomes exited (or is dropped from the store); and for a handle that is
\* exited InspectTask returns the exit result.
C11_ProbeDecidesExit ==
    /\ [][\A i \in DOMAIN handles :
             (handles[i].run = "poll" /\ handles'[i].run = "done")
                 => /\ ~Alive(containers, handles[i].probe)
                    /\ ~Alive(containers, handles[i].initPid)]_vars
    /\ \A i \in 1..MaxHandles : DeadUnreported(i) ~> ~DeadUnreported(i)
    /\ [](\A i \in DOMAIN handles :
             handles[i].run \in {"start", "poll"} => handles[i].procState = "running")
    /\ [](\A id \in TaskIDs :
             InspectState(id) = "exited" => Inspect(id).ExitResult = "exit0")

\* the init process of a registered task has exited, the poller has probed
\* it and InspectTask reports the exit
C11_Witness ==
    \E id \in TaskIDs :
        /\ InspectState(id) = "exited"
        /\ handles[Get(id)].run = "done"
        /\ handles[Get(id)].initPid > 0
        /\ Inspect(id).ExitResult = "exit0"

\* the path p lies in the directory dir: no upward step leads from dir to p
Within(dir, p) == Rel(dir, p) = <<>> \/ Rel(dir, p)[1] # ".."

\* the volumes of a planned task, and whether all have a relative source
PlannedVolumes == Range(setup.cfg.Task.Volumes)
AllRelative == \A v \in PlannedVolumes : ~IsAbs(v.src)

\* C12: mountEntries, on a task whose volume sources are all relative,
\* accepts the volumes when every source, joined to the task directory,
\* lies in the task directory (a source such as "..data" included), with
\* volumes enabled or not; when a source leads out of the task directory it
\* fails with volumes disabled and succeeds with volumes enabled.
C12_RelativeVolumes ==
    (setup.op = "mountEntries" /\ AllRelative) =>
        LET inside == \A v \in PlannedVolumes : Within(TaskDir, Join(TaskDir, v.src))
        IN  /\ inside => setup.out.err = ""
            /\ (~inside /\ ~config.AllowVolumes) => setup.out.err # ""
            /\ (~inside /\ config.AllowVolumes) => setup.out.err = ""

\* the names of the runtime calls a helper made, in order
CallNames(cs) == [i \in DOMAIN cs |-> cs[i][1]]

\* C13: setResourceLimits tries memory.max first, with the memory request in
\* bytes (256 MB is 268435456), and calls SetMemoryLimit, with the same
\* number, exactly when memory.max is rejected; it then tries cpu.weight
\* with the CPU shares and sets cpu.shares, with the same number, exactly
\* when cpu.weight is rejected; it returns an error exactly when both
\* attempts for one resource fail, and success otherwise.
C13_LimitFallback ==
    setup.op = "setResourceLimits" =>
        LET f == setup.fails
            cs == setup.out.calls
            names == Range(CallNames(cs))
            memOk == "memory.max" \notin f \/ "SetMemoryLimit" \notin f
            cpuOk == "cpu.weight" \notin f \/ "cpu.shares" \notin f
        IN  /\ cs[1] = <<"memory.max", setup.cfg.Task.MemoryMB * 1024 * 1024>>
            /\ setup.cfg.Task.MemoryMB = 256 => cs[1][2] = 268435456
            /\ "SetMemoryLimit" \in names <=> "memory.max" \in f
            /\ \A i \in DOMAIN cs :
                   cs[i][1] = "SetMemoryLimit" => i = 2 /\ cs[i][2] = cs[1][2]
            /\ "cpu.weight" \in names <=> memOk
            /\ \A i \in DOMAIN cs :
                   cs[i][1] = "cpu.weight" =>
                       /\ cs[i][2] = setup.cfg.Task.CPUShares
                       /\ i = Len(cs) \/ (i = Len(cs) - 1 /\ cs[i + 1][1] = "cpu.shares")
            /\ "cpu.shares" \in names <=> (memOk /\ "cpu.weight" \in f)
            /\ \A i \in DOMAIN cs :
                   cs[i][1] = "cpu.shares" => i > 1 /\ cs[i - 1] = <<"cpu.weight", cs[i][2]>>
            /\ setup.out.err = "" <=> (memOk /\ cpuOk)

\* both modern keys are rejected, both legacy calls succeed: the limits of
\* a 256 MB task are set and no error is returned
C13_Witness ==
    /\ setup.op = "setResourceLimits"
    /\ setup.fails = {"memory.max", "cpu.weight"}
    /\ setup.cfg.Task.MemoryMB = 256
    /\ setup.out.err = ""
    /\ setup.out.calls[2] = <<"SetMemoryLimit", 268435456>>
    /\ CallNames(setup.out.calls)[4] = "cpu.shares"

\* C14: when mountEntries accepts the volumes of a task, the list it returns
\* has 3 + |mounts| + |devices| + |volumes| entries: the three fixed bind
\* mounts local, alloc and secrets, read-write, then one entry per mount of
\* the task in the order given, then one per device in the order given, then
\* one per volume in the order given (the list is a function of the task,
\* of the driver configuration and of the types of the host paths).
C14_MountOrder ==
    (setup.op = "mountEntries" /\ setup.out.err = "") =>
        LET e == setup.out.mounts
            ms == setup.cfg.Task.Mounts
            ds == setup.cfg.Task.Devices
            vs == setup.cfg.Task.Volumes
        IN  /\ Len(e) = 3 + Len(ms) + Len(ds) + Len(vs)
            /\ [i \in 1..3 |-> e[i].src] = <<"local", "alloc", "secrets">>
            /\ \A i \in 1..3 :
                   e[i].target.parts = <<e[i].src>> /\ e[i].perm = "rw" /\ e[i].typ = "dir"
            /\ \A i \in 1..Len(ms) :
                   /\ e[3 + i].src = ms[i].HostPath
                   /\ e[3 + i].target = TrimLeft(ms[i].TaskPath)
                   /\ e[3 + i].perm = "ro" <=> ms[i].Readonly
            /\ \A i \in 1..Len(ds) :
                   /\ e[3 + Len(ms) + i].src = ds[i].HostPath
                   /\ e[3 + Len(ms) + i].target = TrimLeft(ds[i].TaskPath)
            /\ \A i \in 1..Len(vs) :
                   LET v == e[3 + Len(ms) + Len(ds) + i]
                   IN  /\ v.src = IF IsAbs(vs[i].src) THEN vs[i].src
                                  ELSE Join(TaskDir, vs[i].src)
                       /\ v.target = TrimLeft(vs[i].target)
                       /\ v.perm = vs[i].mode /\ v.typ = vs[i].type

\* mountEntries has planned a task with two mounts, two devices and two
\* volumes, one of them relative: nine entries
C14_Witness ==
    /\ setup.op = "mountEntries" /\ setup.out.err = ""
    /\ Len(setup.cfg.Task.Mounts) = 2 /\ Len(setup.cfg.Task.Devices) = 2
    /\ setup.cfg.Task.Volumes = <<RelVolume, AbsVolume>>
    /\ Len(setup.out.mounts) = 9

\* C15: configureContainerNetwork resolves the mode as the task's network
\* mode when that is not empty and as the driver's otherwise. When no runtime
\* call fails: on "host" it sets the network type to none and nothing else;
\* on "bridge" it sets type veth, link lxcbr0 and flags up, in this order; on
\* every other mode, the empty one included, it returns an error and sets
\* no network directive.
C15_NetworkMode ==
    setup.op = "configureContainerNetwork" =>
        LET task == setup.cfg.Task.NetworkMode
            mode == IF task # "" THEN task ELSE config.NetworkMode
            out == setup.out
        IN  /\ (mode = "host" /\ setup.fails = {}) =>
                   out.err = "" /\ out.calls = <<"net.type=none">>
            /\ (mode = "bridge" /\ setup.fails = {}) =>
                   /\ out.err = ""
                   /\ out.calls = <<"net.type=veth", "net.link=lxcbr0", "net.flags=up">>
            /\ mode \notin {"host", "bridge"} => out.err # "" /\ out.calls = <<>>

\* the task asks for host networking on a driver whose default is bridge
C15_Witness ==
    /\ setup.op = "configureContainerNetwork" /\ setup.fails = {}
    /\ setup.cfg.Task.NetworkMode = "host" /\ config.NetworkMode = "bridge"
    /\ setup.out.calls = <<"net.type=none">>

\* the two validation errors of initializeContainer
VerbosityError == "verbosity can only be either quiet or verbose"
LogLevelError == "log_level can only be trace, debug, info, warn or error"

\* C16 (as amended): initializeContainer, once it has the container object,
\* returns the verbosity error for every verbosity other than quiet, verbose
\* and the empty string, having set no verbosity, and the log-level error
\* for every log level other than trace, debug, info, warn, error and the
\* empty string; the empty string (the option is not set) is accepted for
\* both, and with accepted values and no failing runtime call it succeeds.
C16_EnumsOrUnset ==
    (setup.op = "initializeContainer" /\ "NewContainer" \notin setup.fails) =>
        LET v == setup.cfg.Task.Verbosity
            l == setup.cfg.Task.LogLevel
            vOk == v \in {"", "quiet", "verbose"}
            lOk == l \in {"", "trace", "debug", "info", "warn", "error"}
        IN  /\ ~vOk => /\ setup.out.err = VerbosityError
                       /\ "SetVerbosity" \notin Range(setup.out.calls)
            /\ (vOk /\ ~lOk) => /\ setup.out.err = LogLevelError
                                /\ "SetLogLevel" \notin Range(setup.out.calls)
            /\ (vOk /\ lOk) => setup.out.err \notin {VerbosityError, LogLevelError}
            /\ (vOk /\ lOk /\ setup.fails = {}) => setup.out.err = ""

\* a verbosity outside the options is rejected
C16_Witness ==
    /\ setup.op = "initializeContainer"
    /\ setup.cfg.Task.Verbosity = "loud"
    /\ setup.out.err = VerbosityError

\* C16 (as stated): initializeContainer returns a validation error for every
\* verbosity outside {quiet, verbose} and for every log level outside
\* {trace, debug, info, warn, error}, the empty string included.
C16_EnumsStrict ==
    (setup.op = "initializeContainer" /\ "NewContainer" \notin setup.fails) =>
        ((\/ setup.cfg.Task.Verbosity \notin {"quiet", "verbose"}
          \/ setup.cfg.Task.LogLevel \notin {"trace", "debug", "info", "warn", "error"})
            => setup.out.err \in {VerbosityError, LogLevelError})

\* the step of a successful start a runtime call belongs to: 1 container
\* initialization, 2 create, 3 network, 4 mounts and devices, 5 process
\* start, 6 resource limits, 7 persisting the task state, 8 registering the
\* handle, 9 starting the monitor
StartStep(call) ==
    CASE call \in {"NewContainer", "SetVerbosity", "SetLogLevel", "SetLogFile",
                   "lxc.cgroup.dir", "lxc.environment", "LoadConfigFile"} -> 1
      [] call = "Create=ok" -> 2
      [] call \in {"net.type=none", "net.type=veth", "net.link=lxcbr0", "net.flags=up"} -> 3
      [] call \in {"lxc.mount.entry", "lxc.cgroup.devices.allow"} -> 4
      [] call = "StartExecute=ok" -> 5
      [] call = "setResourceLimits" -> 6
      [] call \in {"InitPid", "SetDriverState"} -> 7
      [] call = "Set" -> 8
      [] call = "run" -> 9
      [] OTHER -> 0

TaskDirectives ==
    { "lxc.cgroup.dir", "lxc.environment", "net.type=none", "net.type=veth",
      "net.link=lxcbr0", "net.flags=up", "lxc.mount.entry", "lxc.cgroup.devices.allow" }

\* C18: in a task start the base configuration file is loaded before any
\* task-specific directive (cgroup directory, environment, network, mounts,
\* devices) is set on the container.
C18_BaseConfigFirst ==
    StartReturned =>
        \A i \in DOMAIN ev.log :
            ev.log[i] \in TaskDirectives =>
                \E j \in 1..(i - 1) : ev.log[j] = "LoadConfigFile"

\* a device of the task does not resolve, or mountEntries rejects a volume
MountPlanFails(cfg) ==
    \/ \E i \in DOMAIN cfg.Task.Devices : ~cfg.Task.Devices[i].Resolves
    \/ \E i \in DOMAIN cfg.Task.Volumes :
           volumeError(cfg.Task.Volumes[i], config.AllowVolumes) # ""

\* C19: a StartTask of a task with a device that does not resolve, or with a
\* volume the volume policy rejects, fails, and it has set no mount entry
\* and no device-cgroup-allow directive on the container.
C19_MountsAllOrNothing ==
    (StartReturned /\ MountPlanFails(ev.cfg)) =>
        /\ ev.res # "ok"
        /\ Range(ev.log) \cap {"lxc.mount.entry", "lxc.cgroup.devices.allow"} = {}

\* a start has failed in mountVolumes on the second device of a task whose
\* volume is accepted and whose first device resolves
C19_Witness ==
    /\ StartFailed /\ ev.res = "DeviceFromPath"
    /\ Len(ev.cfg.Task.Devices) = 2 /\ ev.cfg.Task.Devices[1].Resolves
    /\ ev.cfg.Task.Volumes = <<RelVolume>>
    /\ "Create=ok" \in Range(ev.log)

\* the last call a failed start made before its rollback
FailedCall ==
    ev.log[Len(ev.log) - (IF EndsWith(ev.log, RollbackRunning) THEN 3 ELSE 2)]

\* the errors StartTask returns when its step fails after the call
ErrorsAfter(call) ==
    CASE call = "Create=ok" -> {"Network mode is undefined"}
      [] call \in {"net.type=none", "net.type=veth"} ->
           { "error setting network type configuration 'none'",
             "error setting network type configuration 'veth'",
             "absolute bind-mount volume in config but volumes are disabled",
             "bind-mount path escapes task directory but volumes are disabled",
             "DeviceFromPath" }
      [] call = "net.link=lxcbr0" -> {"error setting network link configuration"}
      [] call = "net.flags=up" ->
           { "error setting network flags configuration",
             "absolute bind-mount volume in config but volumes are disabled",
             "bind-mount path escapes task directory but volumes are disabled",
             "DeviceFromPath" }
      [] call = "lxc.mount.entry" -> {"error setting bind mount"}
      [] call = "lxc.cgroup.devices.allow" -> {"error setting cgroup permission"}
      [] call = "StartExecute" -> {"unable to start container"}
      [] call = "setResourceLimits" ->
           {"unable to set memory limits", "unable to set cpu shares"}
      [] call = "SetDriverState" -> {"failed to set driver state"}
      [] OTHER -> {}

\* C20: when a StartTask has failed and its rollback has failed too (the
\* container it created is still there, or still runs, after the rollback),
\* the error it returns is the error of the step that failed, and the task
\* ID is not in the store.
C20_RollbackErrorNotReturned ==
    (/\ StartFailed
     /\ EndsWith(ev.log, RollbackRunning) \/ EndsWith(ev.log, RollbackStopped)
     /\ containers[ev.cfg.Name].defined)
        => /\ ev.res \in ErrorsAfter(FailedCall)
           /\ ~Registered(ev.id)

\* the limits of a started container could not be set and the rollback
\* could not stop it: the container still runs
C20_Witness ==
    /\ StartFailed /\ ev.res = "unable to set cpu shares"
    /\ EndsWith(ev.log, RollbackRunning)
    /\ Running(containers, ev.cfg.Name)
    /\ ~Registered(ev.id)

\* C21: DestroyTask without force on a registered task whose handle is
\* running has one outcome: it returns the error "cannot destroy running
\* task", deletes nothing from the store, leaves every container as it is
\* (neither stopped nor destroyed) and starts nothing, so that the store and
\* the handle are as they were.
C21_DestroyRunningRefused ==
    \A id \in TaskIDs :
        (Registered(id) /\ IsRunning(handles[Get(id)])) =>
            DestroyTask(id, FALSE)
                = { Out("cannot destroy running task", containers, FALSE, {}) }

\* a registered task whose handle is running and whose container runs
C21_Witness ==
    \E id \in TaskIDs :
        /\ Registered(id)
        /\ IsRunning(handles[Get(id)])
        /\ Running(containers, handles[Get(id)].container)
        /\ handles[Get(id)].run = "poll"

\* what the task-directed handlers may return for the task ID id
TaskResults(id) ==
    { o.res : o \in StopTask(id) \cup DestroyTask(id, TRUE) \cup DestroyTask(id, FALSE)
                     \cup InspectTask(id) \cup TaskStats(id) \cup WaitTask(id) }

\* C22: every outcome of DestroyTask on a registered task that is not
\* running, or with force, returns success and deletes the task from the
\* store, the outcomes where the shutdown or the destruction of the
\* container failed included; when DestroyTask has returned, the task ID
\* is not in the store and every task-directed handler returns the
\* task-not-found error for it.
C22_DestroyAlwaysDeletes ==
    /\ \A id \in TaskIDs, force \in BOOLEAN :
           (Registered(id) /\ (~IsRunning(handles[Get(id)]) \/ force)) =>
               \A o \in DestroyTask(id, force) : o.res = "ok" /\ o.del
    /\ ev.op = "DestroyTask" =>
           /\ ev.res = "ok"
           /\ ~Registered(ev.id)
           /\ TaskResults(ev.id) = {ErrTaskNotFound}

\* DestroyTask has returned success and deleted the task although it could
\* neither stop nor destroy the container, which still runs
C22_Witness ==
    /\ ev.op = "DestroyTask" /\ ev.res = "ok"
    /\ ~Registered(ev.id)
    /\ ~persisted[ev.id].nil
    /\ Running(containers, persisted[ev.id].State.ContainerName)

\* the handles RecoverTask may be called with whose task ID is in the store
RegisteredInputs ==
    { handle \in RecoverInputs : ~handle.nil /\ Registered(handle.State.TaskConfig.ID) }

\* C23: RecoverTask called with a handle whose task ID is in the store
\* returns at its look-up, without an error, and the call changes nothing:
\* the store keeps the handle it holds, with its state and its exit result,
\* no handler goes on to build a second handle and no second poller starts.
C23_RecoverRegisteredNoOp ==
    /\ [](\A handle \in RegisteredInputs : recoverCheck(handle) = "ok")
    /\ [][\A handle \in RegisteredInputs :
             RecoverTask_Begin(handle) =>
                 UNCHANGED <<tasks, handles, calls, containers, persisted, loops>>]_vars

\* RecoverTask may be called with the handle of a registered task that has
\* exited
C23_Witness ==
    \E handle \in RegisteredInputs :
        /\ handles[Get(handle.State.TaskConfig.ID)].procState = "exited"
        /\ handles[Get(handle.State.TaskConfig.ID)].exitResult = "exit0"
        /\ calls = EmptyBag

\* a caller waits on handle h, receives, and neither its context nor the
\* driver's is cancelled, and the handle has exited
AwaitingExit(h) ==
    /\ handles[h].procState = "exited"
    /\ ~shutdown
    /\ \E pc \in {"select", "send"} : Waiting(h, pc) \in loops

\* the exit result of handle h has just been received from a wait channel
Delivered(h) == ev.op = "recv" /\ ev.h = h /\ ev.res = handles[h].exitResult

\* C24: a value is received from a wait channel only when the handle the
\* subscription reads has exited, and the value is the exit result of that
\* handle; while a handle is running its wait goroutine does not go on to
\* send; once a handle has exited, a caller that keeps receiving, with no
\* context cancelled, receives the exit result.
C24_WaitDelivers ==
    /\ [][\A l \in loops :
             (l.kind = "wait" /\ Loop_Send(l)) =>
                 /\ handles[l.h].procState = "exited"
                 /\ ev'.res = handles[l.h].exitResult
                 /\ ev'.res = "exit0"]_vars
    /\ [](\A l \in loops :
             (l.kind = "wait" /\ l.pc = "send") => handles[l.h].procState = "exited")
    /\ \A h \in 1..MaxHandles : AwaitingExit(h) ~> (Delivered(h) \/ ~AwaitingExit(h))

\* a caller has received the exit result of a task that exited
C24_Witness ==
    \E h \in 1..MaxHandles :
        /\ Delivered(h)
        /\ ev.res = "exit0"
        /\ handles[h].run = "done"
        /\ AwaitingExit(h)

====
